---- MODULE Spec2Model ----
(***************************************************************************)
(* Refresh / cache / query pipeline of the Brazilian public job            *)
(* competitions service: the HTTP API (api_concursos.py) and the MCP       *)
(* server (mcp_server.py).  The two servers are separate programs with     *)
(* their own module globals; the API's globals keep their source names,    *)
(* the MCP server's carry the prefix "mcp_".                                *)
(*                                                                         *)
(* Text is a sequence of one-character strings, so that lower(),           *)
(* replace(), strip() and the substring test are computed, not assumed.    *)
(***************************************************************************)
EXTENDS Integers, Sequences, FiniteSets, TLC

(***************************************************************************)
(* Bounds of the model.                                                    *)
(***************************************************************************)
\* Number of catalog states modelled (the catalog has 27 entries).
NumStates == 2
\* Number of refresh cycles that are explored.
MaxCycles == 2
\* The concurrency limit the API is configured with (SCRAPE_CONCURRENCY is
\* read from the environment, default 8); kept below NumStates so that the
\* gate actually blocks.
SCRAPE_CONCURRENCY == 1

(***************************************************************************)
(* Configuration (environment variables with defaults).                    *)
(***************************************************************************)
UPDATE_INTERVAL_SECONDS == 3600

\* Optional values: None is the empty tuple, a present value v is Some(v).
None == <<>>
Some(v) == <<v>>
OPEN == "open"
SCHEDULED == "scheduled"

(***************************************************************************)
(* Text helpers: str.lower, `in`, str.replace, str.strip.                  *)
(***************************************************************************)
UpperCase == <<"A", "B", "C", "O", "P", "V">>
LowerCase == <<"a", "b", "c", "o", "p", "v">>

LowerChar(c) ==
    IF \E i \in 1..Len(UpperCase) : UpperCase[i] = c
    THEN LowerCase[CHOOSE i \in 1..Len(UpperCase) : UpperCase[i] = c]
    ELSE c

lower(s) == [i \in 1..Len(s) |-> LowerChar(s[i])]

\* Python's `sub in s` for strings.
Contains(sub, s) ==
    \E i \in 0..(Len(s) - Len(sub)) : SubSeq(s, i + 1, i + Len(sub)) = sub

\* str.replace(old, ""): every non-overlapping occurrence, left to right.
RECURSIVE replace(_, _)
replace(s, old) ==
    IF Len(s) < Len(old) \/ Len(old) = 0 THEN s
    ELSE IF SubSeq(s, 1, Len(old)) = old
         THEN replace(SubSeq(s, Len(old) + 1, Len(s)), old)
         ELSE <<Head(s)>> \o replace(Tail(s), old)

RECURSIVE lstrip(_)
lstrip(s) == IF s # <<>> /\ Head(s) = " " THEN lstrip(Tail(s)) ELSE s

RECURSIVE rstrip(_)
rstrip(s) ==
    IF s # <<>> /\ s[Len(s)] = " " THEN rstrip(SubSeq(s, 1, Len(s) - 1)) ELSE s

strip(s) == rstrip(lstrip(s))

previsto == <<"p", "r", "e", "v", "i", "s", "t", "o">>

(***************************************************************************)
(* The state catalog: the first NumStates codes of STATES.  The names are  *)
(* written without their accents.                                          *)
(***************************************************************************)
Catalog ==
    << <<"a", "c">>, <<"a", "l">>, <<"a", "p">>, <<"a", "m">>, <<"b", "a">>,
       <<"c", "e">>, <<"d", "f">>, <<"e", "s">>, <<"g", "o">>, <<"m", "a">>,
       <<"m", "t">>, <<"m", "s">>, <<"m", "g">>, <<"p", "a">>, <<"p", "b">>,
       <<"p", "r">>, <<"p", "e">>, <<"p", "i">>, <<"r", "j">>, <<"r", "n">>,
       <<"r", "s">>, <<"r", "o">>, <<"r", "r">>, <<"s", "c">>, <<"s", "p">>,
       <<"s", "e">>, <<"t", "o">> >>

CatalogNames ==
    << "Acre", "Alagoas", "Amapa", "Amazonas", "Bahia", "Ceara",
       "Distrito Federal", "Espirito Santo", "Goias", "Maranhao",
       "Mato Grosso", "Mato Grosso do Sul", "Minas Gerais", "Para",
       "Paraiba", "Parana", "Pernambuco", "Piaui", "Rio de Janeiro",
       "Rio Grande do Norte", "Rio Grande do Sul", "Rondonia", "Roraima",
       "Santa Catarina", "Sao Paulo", "Sergipe", "Tocantins" >>

STATES_keys == SubSeq(Catalog, 1, NumStates)
STATES == {STATES_keys[i] : i \in 1..NumStates}
IndexOf(state) == CHOOSE i \in 1..NumStates : STATES_keys[i] = state
\* STATES[state]; only evaluated for a key of the catalog.
StateName(state) == CatalogNames[IndexOf(state)]
\* What a call that raises yields.
Raised(exception) == [raised |-> exception]
HasRaised(value) == "raised" \in DOMAIN value

(***************************************************************************)
(* What the source site may answer to one GET.  A cell is its stripped     *)
(* text and the href of its link (None without a link); a table is its     *)
(* <tr> rows, the header row first.                                        *)
(***************************************************************************)
Cell(text, href) == [text |-> text, href |-> href]

HeaderRow == << Cell(<<"O">>, None), Cell(<<"V">>, None) >>

TableA ==
    << HeaderRow,
       << Cell(<<"A", "b">>, Some(<<"u">>)), Cell(<<"c">>, None) >>,
       << Cell(<<"c", " ">> \o previsto, None), Cell(<<"a", "b">>, None) >>,
       << Cell(<<"x">>, None) >> >>

TableB ==
    << HeaderRow,
       << Cell(<<"c">>, Some(<<"a", "b">>)), Cell(<<"B">>, None) >>,
       << Cell(<<"a", "B", " ", "c">>, None), Cell(<<"b">>, None) >>,
       << Cell(<<"P">> \o Tail(previsto) \o <<" ", "b">>, None), Cell(<<"c">>, None) >> >>

TableEmpty == << HeaderRow >>

\* kind: "response" (the GET returned), "timeout" (httpx.TimeoutException) or
\* "exception" (any other exception); table is None when the body has no <table>.
Response(kind, status_code, table) ==
    [kind |-> kind, status_code |-> status_code, table |-> table]

Responses ==
    { Response("response", 200, Some(t)) : t \in {TableA, TableB, TableEmpty} }
    \cup { Response("response", 200, None),
           Response("response", 404, None),
           Response("timeout", 0, None),
           Response("exception", 0, None) }

(***************************************************************************)
(* Extraction of the rows of a table (the loop of fetch_and_extract_data). *)
(***************************************************************************)
Competition(organization, positions, status, url) ==
    [organization |-> organization, positions |-> positions,
     status |-> status, url |-> url]

RECURSIVE ConcatText(_)
ConcatText(cells) ==
    IF cells = <<>> THEN <<>> ELSE Head(cells).text \o ConcatText(Tail(cells))

ExtractRow(cells) ==
    LET organization == cells[1].text
        full_text == lower(ConcatText(cells))
        scheduled == Contains(previsto, full_text)
                     \/ (IF organization # <<>>
                         THEN Contains(previsto, lower(organization))
                         ELSE FALSE)
    IN Competition(IF scheduled THEN strip(replace(organization, previsto))
                   ELSE organization,
                   IF Len(cells) > 1 THEN Some(cells[2].text) ELSE None,
                   IF scheduled THEN SCHEDULED ELSE OPEN,
                   cells[1].href)

RECURSIVE ExtractRows(_)
ExtractRows(rows) ==
    IF rows = <<>> THEN <<>>
    ELSE IF Len(Head(rows)) < 2 THEN ExtractRows(Tail(rows))
         ELSE <<ExtractRow(Head(rows))>> \o ExtractRows(Tail(rows))

\* table.find_all("tr")[1:]
DataRows(table) == IF table = <<>> THEN <<>> ELSE Tail(table)

(***************************************************************************)
(* State.                                                                  *)
(*   HTTP API (api_concursos.py):                                          *)
(*     competitions_data, cache_metadata : dicts, modelled as functions    *)
(*         whose DOMAIN is the set of keys present                         *)
(*     global_statistics : the counters record                             *)
(*     _scheduler        : None until startup_event has started it         *)
(*     task_pc           : position of periodic_update_task                *)
(*     fetch, results    : per state, the position of its wrapped fetch    *)
(*                         coroutine and the (comps, ok) it returned       *)
(*     sem_value         : free slots of the semaphore                     *)
(*     global_start      : perf_counter() at the start of the cycle        *)
(*     cycles            : refresh cycles started so far                   *)
(*     clock             : the time, read by datetime.now / perf_counter;  *)
(*                         it advances by one unit at every step that      *)
(*                         reads it and at every iteration of the commit   *)
(*                         loop, so two reads never return the same value  *)
(*     http_response     : the response produced by the current step,      *)
(*                         None when the step is not a request             *)
(***************************************************************************)
VARIABLES competitions_data, cache_metadata, global_statistics, _scheduler,
          task_pc, fetch, results, sem_value, global_start, cycles, clock,
          http_response

api_vars == <<competitions_data, cache_metadata, global_statistics, _scheduler,
              task_pc, fetch, results, sem_value, global_start, cycles, clock,
              http_response>>

VARIABLES mcp_competitions_data, _update_loop_started, _first_update_done,
          mcp_pc, mcp_fetch, mcp_results, mcp_pending, mcp_cycles, mcp_response,
          update_loop_tasks

mcp_vars == <<mcp_competitions_data, _update_loop_started, _first_update_done,
              mcp_pc, mcp_fetch, mcp_results, mcp_pending, mcp_cycles,
              mcp_response, update_loop_tasks>>

vars == <<api_vars, mcp_vars>>

EmptyDict == [k \in {} |-> <<>>]

CacheMetadata(last_update, next_update, total, success, seconds) ==
    [last_update |-> last_update, next_update |-> next_update,
     total_competitions |-> total, success |-> success,
     update_time_seconds |-> seconds]

\* What an extractor call returns: (competitions, ok).
Outcome(comps, ok) == [comps |-> comps, ok |-> ok]

\* dict.get(key, default)
Get(dict, key, default) == IF key \in DOMAIN dict THEN dict[key] ELSE default

(***************************************************************************)
(* api_concursos.fetch_and_extract_data: the value returned for a given    *)
(* answer of the site, and the increment of total_errors.                  *)
(***************************************************************************)
fetch_and_extract_data_Reraise(r) ==
    IF r.kind = "exception" THEN Raised("Exception")
    ELSE IF r.kind = "timeout" \/ r.status_code # 200 \/ r.table = None
    THEN Outcome(<<>>, FALSE)
    ELSE Outcome(ExtractRows(DataRows(r.table[1])), TRUE)

\* Both except clauses return ([], False), so no answer of the site makes
\* the call raise.
fetch_and_extract_data(r) ==
    IF r.kind # "response" THEN Outcome(<<>>, FALSE)
    ELSE IF r.status_code # 200 THEN Outcome(<<>>, FALSE)
    ELSE IF r.table = None THEN Outcome(<<>>, FALSE)
    ELSE Outcome(ExtractRows(DataRows(r.table[1])), TRUE)

fetch_errors_CountsHttpErrors(r) ==
    IF r.kind # "response" \/ r.status_code # 200 THEN 1 ELSE 0

\* global_statistics["total_errors"] += 1 in the two except clauses.
fetch_errors(r) == IF r.kind \in {"timeout", "exception"} THEN 1 ELSE 0

InitApi ==
    /\ competitions_data = EmptyDict
    /\ cache_metadata = EmptyDict
    /\ global_statistics = [total_updates |-> 0, total_errors |-> 0,
                            last_update_time_seconds |-> 0,
                            last_complete_update |-> None]
    /\ _scheduler = None
    /\ task_pc = "boot"
    /\ fetch = [s \in STATES |-> "none"]
    /\ results = [s \in STATES |-> Outcome(<<>>, FALSE)]
    /\ sem_value = SCRAPE_CONCURRENCY
    /\ global_start = 0
    /\ cycles = 0
    /\ clock = 0
    /\ http_response = None

(***************************************************************************)
(* periodic_update_task, first part: global_start is read, the 27          *)
(* coroutine objects are created and handed to _gather_with_semaphore,     *)
(* which wraps each one in "async with sem" and gathers the wrappers.      *)
(***************************************************************************)
BeginCycle ==
    /\ cycles < MaxCycles
    /\ cycles' = cycles + 1
    /\ global_start' = clock
    /\ fetch' = [s \in STATES |-> "waiting"]
    /\ results' = [s \in STATES |-> Outcome(<<>>, FALSE)]
    /\ sem_value' = SCRAPE_CONCURRENCY
    /\ task_pc' = "gather"
    /\ http_response' = None
    /\ clock' = clock + 1
    /\ UNCHANGED <<competitions_data, cache_metadata, global_statistics,
                   _scheduler>>
    /\ UNCHANGED mcp_vars

\* startup_event: the initial cycle is awaited before the scheduler exists.
StartupEvent ==
    /\ task_pc = "boot"
    /\ BeginCycle

\* The "refresh" interval job of the scheduler.
ScheduledJob ==
    /\ _scheduler # None
    /\ task_pc = "idle"
    /\ BeginCycle

MayAcquire_NoGate(s) == fetch[s] = "waiting"

\* The semaphore wakes its waiters in the order they arrived, which is the
\* order of STATES.keys().
MayAcquire(s) ==
    /\ fetch[s] = "waiting"
    /\ sem_value > 0
    /\ \A t \in STATES : IndexOf(t) < IndexOf(s) => fetch[t] # "waiting"

\* _wrap: "async with sem" is entered and the fetch coroutine starts.
Acquire(s) ==
    /\ task_pc = "gather"
    /\ MayAcquire(s)
    /\ fetch' = [fetch EXCEPT ![s] = "running"]
    /\ sem_value' = sem_value - 1
    /\ http_response' = None
    /\ UNCHANGED <<competitions_data, cache_metadata, global_statistics,
                   _scheduler, task_pc, results, global_start, cycles, clock>>
    /\ UNCHANGED mcp_vars

SlotsReleased_OnSuccessOnly(outcome) == IF outcome.ok THEN 1 ELSE 0

\* _wrap: leaving "async with sem" releases the slot however the body ended.
SlotsReleased(outcome) == 1

AfterFetch_RetryOnFailure(outcome) == IF outcome.ok THEN "done" ELSE "waiting"

\* The position of a wrapped fetch once its coroutine has returned: gather
\* holds its result, whatever it is, and nothing awaits the state again.
AfterFetch(outcome) == "done"

\* The GET of one state resolves with answer r; the coroutine returns and
\* "async with sem" releases the slot.  Were the coroutine to raise,
\* asyncio.gather would raise in periodic_update_task, which has no
\* handler: the cycle would be abandoned ("aborted").
FetchAndExtract(s, r) ==
    /\ task_pc = "gather"
    /\ fetch[s] = "running"
    /\ IF HasRaised(fetch_and_extract_data(r))
       THEN /\ fetch' = [fetch EXCEPT ![s] = "raised"]
            /\ task_pc' = "aborted"
            /\ UNCHANGED results
       ELSE /\ fetch' = [fetch EXCEPT ![s] = AfterFetch(fetch_and_extract_data(r))]
            /\ results' = [results EXCEPT ![s] = fetch_and_extract_data(r)]
            /\ UNCHANGED task_pc
    /\ global_statistics' =
           [global_statistics EXCEPT
               !.total_errors = global_statistics.total_errors + fetch_errors(r)]
    /\ sem_value' = sem_value + SlotsReleased(fetch_and_extract_data(r))
    /\ http_response' = None
    /\ UNCHANGED <<competitions_data, cache_metadata, _scheduler,
                   global_start, cycles, clock>>
    /\ UNCHANGED mcp_vars

GatherDone_FirstCompleted == \E s \in STATES : fetch[s] = "done"

\* asyncio.gather returns when every wrapped fetch has returned.
GatherDone == \A s \in STATES : fetch[s] = "done"

(***************************************************************************)
(* The commit loop of periodic_update_task (lines 174-195), per state.     *)
(*   now  : datetime.now() read once before the loop                       *)
(*   perf : perf_counter() read in the success branch for this state       *)
(***************************************************************************)
Succeeded(outcome) == outcome.ok /\ outcome.comps # <<>>

CommittedRecords_ClearOnFailure(data, state, outcome) == outcome.comps

CommittedRecords_Deferred(data, state, outcome) == Get(data, state, <<>>)

\* The records cached for a state after its commit: replaced on success,
\* competitions_data.setdefault(state, []) otherwise.
CommittedRecords(data, state, outcome) ==
    IF Succeeded(outcome) THEN outcome.comps ELSE Get(data, state, <<>>)

CommittedMetadata_OkOnly(outcome, now, perf) ==
    CacheMetadata(now, now + UPDATE_INTERVAL_SECONDS, Len(outcome.comps),
                  outcome.ok, IF outcome.ok THEN perf - global_start ELSE 0)

CommittedMetadata_CountsAttempts(outcome, now, perf) ==
    CacheMetadata(now, now + UPDATE_INTERVAL_SECONDS, Len(outcome.comps) + 1,
                  Succeeded(outcome),
                  IF Succeeded(outcome) THEN perf - global_start ELSE 0)

CommittedMetadata_CycleStart(outcome, now, perf) ==
    IF Succeeded(outcome)
    THEN CacheMetadata(global_start, global_start + UPDATE_INTERVAL_SECONDS,
                       Len(outcome.comps), TRUE, perf - global_start)
    ELSE CacheMetadata(global_start, global_start + UPDATE_INTERVAL_SECONDS,
                       0, FALSE, 0)

CommittedMetadata(outcome, now, perf) ==
    IF Succeeded(outcome)
    THEN CacheMetadata(now, now + UPDATE_INTERVAL_SECONDS, Len(outcome.comps),
                       TRUE, perf - global_start)
    ELSE CacheMetadata(now, now + UPDATE_INTERVAL_SECONDS, 0, FALSE, 0)

\* The loop has no suspension point, so it is one step.  datetime.now() is
\* read before the loop; the iteration of the state at position i reads
\* perf_counter() i units later.
CommitResults ==
    /\ task_pc = "gather"
    /\ GatherDone
    /\ LET now == clock
           perf(s) == clock + IndexOf(s)
       IN /\ competitions_data' =
                  [s \in DOMAIN competitions_data \cup STATES |->
                      IF s \in STATES
                      THEN CommittedRecords(competitions_data, s, results[s])
                      ELSE competitions_data[s]]
          /\ cache_metadata' =
                  [s \in DOMAIN cache_metadata \cup STATES |->
                      IF s \in STATES
                      THEN CommittedMetadata(results[s], now, perf(s))
                      ELSE cache_metadata[s]]
    /\ clock' = clock + NumStates
    /\ task_pc' = "closing"
    /\ http_response' = None
    /\ UNCHANGED <<global_statistics, _scheduler, fetch, results, sem_value,
                   global_start, cycles>>
    /\ UNCHANGED mcp_vars

FinishedStatistics_CountOnSuccess(stats, total_time, finished_at) ==
    [stats EXCEPT !.total_updates =
                      IF \E s \in STATES : Succeeded(results[s])
                      THEN stats.total_updates + 1 ELSE stats.total_updates,
                  !.last_update_time_seconds = total_time,
                  !.last_complete_update = Some(finished_at)]

\* The statistics written after the client has been closed (lines 197-200).
FinishedStatistics(stats, total_time, finished_at) ==
    [stats EXCEPT !.total_updates = stats.total_updates + 1,
                  !.last_update_time_seconds = total_time,
                  !.last_complete_update = Some(finished_at)]

\* "async with client" exits (a suspension point), then the statistics are
\* written.  When the cycle is the one awaited by startup_event, the handler
\* goes on to create and start the scheduler without suspending.
FinishCycle ==
    /\ task_pc = "closing"
    /\ clock' = clock + 1
    /\ global_statistics' =
           FinishedStatistics(global_statistics, clock' - global_start, clock')
    /\ task_pc' = "idle"
    /\ _scheduler' = Some("running")
    /\ http_response' = None
    \* the locals of the coroutine are gone when it returns
    /\ fetch' = [s \in STATES |-> "none"]
    /\ results' = [s \in STATES |-> Outcome(<<>>, FALSE)]
    /\ global_start' = 0
    /\ UNCHANGED <<competitions_data, cache_metadata, sem_value, cycles>>
    /\ UNCHANGED mcp_vars

(***************************************************************************)
(* api_concursos.process_competitions_data (lines 203-239).                *)
(*   status_filter : None, Some(OPEN) or Some(SCHEDULED)                   *)
(*   search        : None or Some(text); the empty text is falsy           *)
(***************************************************************************)
asdict(c) ==
    [organization |-> c.organization, positions |-> c.positions,
     status |-> c.status, url |-> c.url]

\* [c for c in comps if Test(c)] is SelectSeq(comps, Test).
MapAsdict(comps) == [i \in 1..Len(comps) |-> asdict(comps[i])]

StatusMatches_Inverted(c, status_filter) == c.status # status_filter[1]

StatusMatches(c, status_filter) == c.status = status_filter[1]

SearchMatches_AnyField(c, search) ==
    \/ Contains(lower(search[1]), lower(c.organization))
    \/ (c.url # None /\ Contains(lower(search[1]), lower(c.url[1])))

SearchMatches(c, search) == Contains(lower(search[1]), lower(c.organization))

FilterStatus(comps, status_filter) ==
    IF status_filter # None
    THEN LET Test(c) == StatusMatches(c, status_filter) IN SelectSeq(comps, Test)
    ELSE comps

FilterSearch(comps, search) ==
    IF search # None /\ search[1] # <<>>
    THEN LET Test(c) == SearchMatches(c, search) IN SelectSeq(comps, Test)
    ELSE comps

Placeholder_AsdictOfNone(state, metadata) ==
    IF metadata = None THEN Raised("TypeError")
    ELSE [state |-> StateName(state),
          state_code |-> state,
          message |-> "Data being collected or not available",
          open_competitions |-> <<>>,
          scheduled_competitions |-> <<>>,
          metadata |-> metadata]

Placeholder(state, metadata) ==
    [state |-> StateName(state),
     state_code |-> state,
     message |-> "Data being collected or not available",
     open_competitions |-> <<>>,
     scheduled_competitions |-> <<>>,
     metadata |-> metadata]

ResultView(state, open_comp, sched_comp, metadata) ==
    [state |-> StateName(state),
     state_code |-> state,
     open_competitions |-> open_comp,
     scheduled_competitions |-> sched_comp,
     total_open |-> Len(open_comp),
     total_scheduled |-> Len(sched_comp),
     metadata |-> metadata]

process_competitions_data(state, status_filter, search) ==
    LET comps == Get(competitions_data, state, <<>>)
        metadata == IF state \in DOMAIN cache_metadata
                    THEN Some(cache_metadata[state]) ELSE None
        filtered == FilterSearch(FilterStatus(comps, status_filter), search)
        IsOpen(c) == c.status = OPEN
        IsScheduled(c) == c.status = SCHEDULED
    IN IF state \notin STATES THEN Raised("KeyError")
       ELSE IF comps = <<>>
       THEN Placeholder(state, metadata)
       ELSE ResultView(state,
                       MapAsdict(SelectSeq(filtered, IsOpen)),
                       MapAsdict(SelectSeq(filtered, IsScheduled)),
                       metadata)

(***************************************************************************)
(* GET /states/{state_code} (lines 333-342).  The server accepts requests  *)
(* once startup_event has returned.                                        *)
(***************************************************************************)
HttpOk(body) == [status_code |-> 200, body |-> Some(body)]
HttpNotFound == [status_code |-> 404, body |-> None]

get_competitions_endpoint(state_code, status, search) ==
    LET state_lower == lower(state_code)
    IN IF state_lower \notin STATES THEN HttpNotFound
       ELSE HttpOk(process_competitions_data(state_lower, status, search))

Request(state_code, status, search) ==
    [state_code |-> state_code, status |-> status, search |-> search]

ReadOnly_ResetsErrors ==
    /\ UNCHANGED <<competitions_data, cache_metadata>>
    /\ global_statistics' = [global_statistics EXCEPT !.total_errors = 0]

\* What the handlers of the queries write to the module globals: nothing.
ReadOnly == UNCHANGED <<competitions_data, cache_metadata, global_statistics>>

GetCompetitionsEndpoint(req) ==
    /\ _scheduler # None
    /\ http_response' =
           Some([path |-> "/states",
                 request |-> req,
                 response |-> get_competitions_endpoint(req.state_code, req.status,
                                                        req.search)])
    /\ ReadOnly
    /\ UNCHANGED <<_scheduler, task_pc, fetch, results, sem_value, global_start,
                   cycles, clock>>
    /\ UNCHANGED mcp_vars

(***************************************************************************)
(* GET /health (lines 320-331).  The status compares                       *)
(* (healthy_states / len(STATES)) * 100 with 80 and with 50; the model     *)
(* compares healthy_states * 100 with 80 * len(STATES) and 50 *            *)
(* len(STATES), which is the same comparison for every catalog size used   *)
(* here (2, 3 and 27: the quotient is either exact or away from the        *)
(* threshold by more than the rounding error).  The formatted percentage   *)
(* and the timestamp of the answer are left out.                           *)
(***************************************************************************)
HealthyStates_CountCached(metadata) ==
    Cardinality({s \in DOMAIN competitions_data : competitions_data[s] # <<>>})

\* sum(1 for m in cache_metadata.values() if m.success)
HealthyStates(metadata) ==
    Cardinality({s \in DOMAIN metadata : metadata[s].success})

\* catalog is the STATES dict of the program.
health_check(metadata, catalog) ==
    LET healthy_states == HealthyStates(metadata)
        total_states == Cardinality(catalog)
    IN [status |-> IF healthy_states * 100 >= 80 * total_states THEN "healthy"
                   ELSE IF healthy_states * 100 >= 50 * total_states THEN "degraded"
                   ELSE "unhealthy",
        available_states |-> healthy_states,
        total_states |-> total_states]

\* A request without parameters.
NoParameters == [state_code |-> <<>>, status |-> None, search |-> None]

HealthCheck(catalog) ==
    /\ _scheduler # None
    /\ http_response' =
           Some([path |-> "/health",
                 request |-> NoParameters,
                 response |-> HttpOk(health_check(cache_metadata, catalog))])
    /\ ReadOnly
    /\ UNCHANGED <<_scheduler, task_pc, fetch, results, sem_value, global_start,
                   cycles, clock>>
    /\ UNCHANGED mcp_vars

(***************************************************************************)
(* GET /stats/global (lines 301-318).                                      *)
(***************************************************************************)
RECURSIVE SumLen(_, _)
\* sum(len(data[k]) for k in keys)
SumLen(data, keys) ==
    IF keys = {} THEN 0
    ELSE LET k == CHOOSE x \in keys : TRUE
         IN Len(data[k]) + SumLen(data, keys \ {k})

get_stats ==
    [total_competitions |-> SumLen(competitions_data, DOMAIN competitions_data),
     available_states |-> Cardinality(STATES),
     updated_states |-> HealthyStates(cache_metadata),
     statistics |-> global_statistics,
     by_state |->
        [s \in STATES |->
            LET comps == Get(competitions_data, s, <<>>)
            IN [total |-> Len(comps),
                open |-> Len(SelectSeq(comps, LAMBDA c : c.status = OPEN)),
                scheduled |-> Len(SelectSeq(comps, LAMBDA c : c.status = SCHEDULED))]]]

GetStats ==
    /\ _scheduler # None
    /\ http_response' =
           Some([path |-> "/stats/global",
                 request |-> NoParameters,
                 response |-> HttpOk(get_stats)])
    /\ ReadOnly
    /\ UNCHANGED <<_scheduler, task_pc, fetch, results, sem_value, global_start,
                   cycles, clock>>
    /\ UNCHANGED mcp_vars

\* The requests the explored clients send.
Requests ==
    { Request(<<"A", "C">>, None, None),
      Request(<<"a", "l">>, Some(OPEN), Some(<<"a", "B">>)),
      Request(<<"x", "x">>, None, None) }

\* The arguments explored for the query alone.
RequestCodes == STATES \cup {<<"A", "C">>, <<"x", "x">>}
StatusFilters == {OPEN, SCHEDULED}
StatusArguments == {None} \cup {Some(F) : F \in StatusFilters}
SearchTexts == { <<"a", "B">>, <<"A", "B">>, <<"c">>, <<"u">>, <<"B", " ">> }
SearchArguments == {None, Some(<<>>)} \cup {Some(t) : t \in SearchTexts}
QueryRequests ==
    { Request(c, f, t) : c \in RequestCodes, f \in StatusArguments,
                         t \in SearchArguments }

NextApi ==
    \/ StartupEvent
    \/ ScheduledJob
    \/ \E s \in STATES : Acquire(s)
    \/ \E s \in STATES, r \in Responses : FetchAndExtract(s, r)
    \/ CommitResults
    \/ FinishCycle
    \/ \E req \in Requests : GetCompetitionsEndpoint(req)

\* The refresh with the clients of all three endpoints.
NextApiAll ==
    \/ StartupEvent
    \/ ScheduledJob
    \/ \E s \in STATES : Acquire(s)
    \/ \E s \in STATES, r \in Responses : FetchAndExtract(s, r)
    \/ CommitResults
    \/ FinishCycle
    \/ \E req \in Requests : GetCompetitionsEndpoint(req)
    \/ HealthCheck(STATES)
    \/ GetStats

(***************************************************************************)
(* MCP server (mcp_server.py).                                             *)
(*   mcp_competitions_data : the competitions_data dict of the server      *)
(*   _update_loop_started, _first_update_done : the two guard flags        *)
(*   mcp_pc      : position of the two coroutines that may run             *)
(*                 periodic_update_task: "loop", the update_loop task, and *)
(*                 "call", the tool call that found the loop not started   *)
(*   mcp_fetch, mcp_results : per coroutine and state, the position of     *)
(*                 the fetch coroutine and the list it returned            *)
(*   mcp_pending : the tool call suspended in its initial update           *)
(*   mcp_cycles  : the refresh cycles started so far                       *)
(*   mcp_response: the answer produced by the current step, None when the  *)
(*                 step answers no tool call                                *)
(*   update_loop_tasks : the number of tasks created by                     *)
(*                 asyncio.create_task(update_loop())                       *)
(***************************************************************************)
Coroutines == {"loop", "call"}

\* mcp_server.fetch_and_extract_data: the list returned for an answer of the
\* site (lines 81-129).
mcp_fetch_and_extract_data(r) ==
    IF r.kind # "response" THEN <<>>
    ELSE IF r.status_code # 200 THEN <<>>
    ELSE IF r.table = None THEN <<>>
    ELSE ExtractRows(DataRows(r.table[1]))

InitMcp ==
    /\ mcp_competitions_data = EmptyDict
    /\ _update_loop_started = FALSE
    /\ _first_update_done = FALSE
    /\ mcp_pc = [t \in Coroutines |-> "none"]
    /\ mcp_fetch = [t \in Coroutines |-> [s \in STATES |-> "none"]]
    /\ mcp_results = [t \in Coroutines |-> [s \in STATES |-> <<>>]]
    /\ mcp_pending = None
    /\ mcp_cycles = 0
    /\ mcp_response = None
    /\ update_loop_tasks = 0

\* mcp_server.process_competitions_data (lines 157-186).
McpPlaceholder(state) ==
    [state |-> StateName(state),
     state_code |-> state,
     message |-> "Data is being collected or not available yet. Try again soon.",
     open_competitions |-> <<>>,
     scheduled_competitions |-> <<>>,
     total_open |-> 0,
     total_scheduled |-> 0]

McpResultView(state, open_list, scheduled_list) ==
    [state |-> StateName(state),
     state_code |-> state,
     open_competitions |-> open_list,
     scheduled_competitions |-> scheduled_list,
     total_open |-> Len(open_list),
     total_scheduled |-> Len(scheduled_list)]

\* cache is the competitions_data dict the call reads.
mcp_process_competitions_data(cache, state) ==
    LET data == Get(cache, state, <<>>)
        IsScheduledItem(item) == item.status = SCHEDULED
        IsOpenItem(item) == ~IsScheduledItem(item)
    IN IF state \notin STATES THEN Raised("KeyError")
       ELSE IF data = <<>> THEN McpPlaceholder(state)
       ELSE McpResultView(state, SelectSeq(data, IsOpenItem),
                          SelectSeq(data, IsScheduledItem))

\* A tool call: its name and the arguments that tool reads.
ToolCall(name, state, filter_open_only) ==
    [name |-> name, state |-> state, filter_open_only |-> filter_open_only]

SummaryOpen(result) ==
    [state |-> result.state, state_code |-> result.state_code,
     open_competitions |-> result.open_competitions,
     total_open |-> result.total_open]

SummaryTotals(result) ==
    [state |-> result.state, state_code |-> result.state_code,
     total_open |-> result.total_open,
     total_scheduled |-> result.total_scheduled]

\* The dispatch of call_tool (lines 250-294); the payload is the value that
\* is handed to json.dumps.
Dispatch(cache, call) ==
    IF call.name = "list_all_states"
    THEN [kind |-> "states",
          payload |-> [i \in 1..NumStates |->
                          [state_code |-> STATES_keys[i],
                           name |-> CatalogNames[i]]]]
    ELSE IF call.name = "get_competitions"
    THEN LET state == lower(call.state)
         IN IF state = <<>> \/ state \notin STATES
            THEN [kind |-> "error", payload |-> state]
            ELSE [kind |-> "competitions",
                  payload |-> mcp_process_competitions_data(cache, state)]
    ELSE IF call.name = "search_competitions_all"
    THEN [kind |-> "summary",
          payload |-> [i \in 1..NumStates |->
                          IF call.filter_open_only
                          THEN SummaryOpen(mcp_process_competitions_data(cache, STATES_keys[i]))
                          ELSE SummaryTotals(mcp_process_competitions_data(cache, STATES_keys[i]))]]
    ELSE [kind |-> "error", payload |-> <<>>]

\* periodic_update_task up to the gather: the fetch coroutines are created
\* and asyncio.gather starts every one of them.
McpBeginCycle(t) ==
    /\ mcp_cycles' = mcp_cycles + 1
    /\ mcp_fetch' = [mcp_fetch EXCEPT ![t] = [s \in STATES |-> "running"]]
    /\ mcp_results' = [mcp_results EXCEPT ![t] = [s \in STATES |-> <<>>]]

\* The state of the cache after the commit loop (lines 139-143).
McpCommitted(data, fetched) ==
    [s \in DOMAIN data \cup STATES |->
        IF s \in STATES
        THEN (IF fetched[s] # <<>> THEN fetched[s] ELSE <<>>)
        ELSE data[s]]

\* periodic_update_task returns: its locals are gone.
McpReturn(t) ==
    /\ mcp_fetch' = [mcp_fetch EXCEPT ![t] = [s \in STATES |-> "none"]]
    /\ mcp_results' = [mcp_results EXCEPT ![t] = [s \in STATES |-> <<>>]]

McpGatherDone(t) == \A s \in STATES : mcp_fetch[t][s] = "done"

\* call_tool, entered while the update loop has not been started: the flag
\* is set, the update_loop task is created, and the handler awaits its own
\* periodic_update_task.
MustStartLoop_UntilFirstUpdate == ~_first_update_done

\* The guard of line 243.
MustStartLoop == ~_update_loop_started

CallToolFirst(call) ==
    /\ MustStartLoop
    /\ _update_loop_started' = TRUE
    /\ update_loop_tasks' = update_loop_tasks + 1
    /\ IF ~_first_update_done /\ DOMAIN mcp_competitions_data = {}
       THEN /\ McpBeginCycle("call")
            /\ mcp_pc' = [mcp_pc EXCEPT !["call"] = "gather", !["loop"] = "ready"]
            /\ mcp_pending' = Some(call)
            /\ mcp_response' = None
       ELSE /\ mcp_pc' = [mcp_pc EXCEPT !["loop"] = "ready"]
            /\ mcp_response' = Some([call |-> call, answer |-> Dispatch(mcp_competitions_data, call)])
            /\ UNCHANGED <<mcp_fetch, mcp_results, mcp_pending, mcp_cycles>>
    /\ UNCHANGED <<mcp_competitions_data, _first_update_done>>
    /\ UNCHANGED api_vars

\* call_tool, entered once the flag is set: it answers from the cache as it
\* is, without suspending.
CallTool(call) ==
    /\ ~MustStartLoop
    /\ mcp_response' = Some([call |-> call, answer |-> Dispatch(mcp_competitions_data, call)])
    /\ UNCHANGED <<mcp_competitions_data, _update_loop_started,
                   _first_update_done, mcp_pc, mcp_fetch, mcp_results,
                   mcp_pending, mcp_cycles, update_loop_tasks>>
    /\ UNCHANGED api_vars

\* update_loop: the task starts, or wakes from its sleep, and runs
\* periodic_update_task.
UpdateLoop ==
    /\ mcp_pc["loop"] \in {"ready", "sleep"}
    /\ mcp_cycles < MaxCycles
    /\ McpBeginCycle("loop")
    /\ mcp_pc' = [mcp_pc EXCEPT !["loop"] = "gather"]
    /\ mcp_response' = None
    /\ UNCHANGED <<mcp_competitions_data, _update_loop_started,
                   _first_update_done, mcp_pending, update_loop_tasks>>
    /\ UNCHANGED api_vars

\* The GET of one state of one cycle resolves with answer r.
McpFetchAndExtract(t, s, r) ==
    /\ mcp_pc[t] = "gather"
    /\ mcp_fetch[t][s] = "running"
    /\ mcp_fetch' = [mcp_fetch EXCEPT ![t][s] = "done"]
    /\ mcp_results' = [mcp_results EXCEPT ![t][s] = mcp_fetch_and_extract_data(r)]
    /\ mcp_response' = None
    /\ UNCHANGED <<mcp_competitions_data, _update_loop_started,
                   _first_update_done, mcp_pc, mcp_pending, mcp_cycles,
                   update_loop_tasks>>
    /\ UNCHANGED api_vars

\* update_loop after the gather: the client is closed, the commit loop runs,
\* _first_update_done is set and the task sleeps.
LoopCommit ==
    /\ mcp_pc["loop"] = "gather"
    /\ McpGatherDone("loop")
    /\ mcp_competitions_data' =
           McpCommitted(mcp_competitions_data, mcp_results["loop"])
    /\ _first_update_done' = TRUE
    /\ mcp_pc' = [mcp_pc EXCEPT !["loop"] = "sleep"]
    /\ McpReturn("loop")
    /\ mcp_response' = None
    /\ UNCHANGED <<_update_loop_started, mcp_pending, mcp_cycles,
                   update_loop_tasks>>
    /\ UNCHANGED api_vars

\* The first tool call after its gather: the commit loop runs and the
\* handler goes on to answer the call without suspending.
CallCommit ==
    /\ mcp_pc["call"] = "gather"
    /\ McpGatherDone("call")
    /\ mcp_competitions_data' =
           McpCommitted(mcp_competitions_data, mcp_results["call"])
    /\ mcp_pc' = [mcp_pc EXCEPT !["call"] = "done"]
    /\ mcp_response' = Some([call |-> mcp_pending[1],
                             answer |-> Dispatch(mcp_competitions_data', mcp_pending[1])])
    /\ mcp_pending' = None
    /\ McpReturn("call")
    /\ UNCHANGED <<_update_loop_started, _first_update_done, mcp_cycles,
                   update_loop_tasks>>
    /\ UNCHANGED api_vars

\* The answers of the site explored for the MCP server: every kind of
\* failure, and one page with records.
McpResponses == Responses \ {Response("response", 200, Some(TableB))}

\* The tool calls the explored clients send.
ToolCalls ==
    { ToolCall("get_competitions", <<"A", "C">>, FALSE),
      ToolCall("get_competitions", <<"x", "x">>, FALSE),
      ToolCall("list_all_states", <<>>, FALSE),
      ToolCall("search_competitions_all", <<>>, TRUE) }

NextMcp ==
    \/ \E call \in ToolCalls : CallToolFirst(call)
    \/ \E call \in ToolCalls : CallTool(call)
    \/ UpdateLoop
    \/ \E t \in Coroutines, s \in STATES, r \in McpResponses :
           McpFetchAndExtract(t, s, r)
    \/ LoopCommit
    \/ CallCommit

(***************************************************************************)
(* Specifications.  The two servers share nothing: SpecApi runs the HTTP   *)
(* API with the clients of GET /states/{code} (SpecApiAll: of all three    *)
(* endpoints), SpecMcp the MCP server, and a behaviour of Spec is a run of *)
(* one of the two.                                                         *)
(***************************************************************************)
Init == InitApi /\ InitMcp

ApiNotStarted == task_pc = "boot"
McpNotStarted == ~_update_loop_started

\* Either server is started only while the other one has not been.
Next ==
    \/ McpNotStarted /\ StartupEvent
    \/ ScheduledJob
    \/ \E s \in STATES : Acquire(s)
    \/ \E s \in STATES, r \in Responses : FetchAndExtract(s, r)
    \/ CommitResults
    \/ FinishCycle
    \/ \E req \in Requests : GetCompetitionsEndpoint(req)
    \/ \E call \in ToolCalls : ApiNotStarted /\ CallToolFirst(call)
    \/ \E call \in ToolCalls : CallTool(call)
    \/ UpdateLoop
    \/ \E t \in Coroutines, s \in STATES, r \in McpResponses :
           McpFetchAndExtract(t, s, r)
    \/ LoopCommit
    \/ CallCommit

\* The query of the HTTP API alone, on every cache the startup cycle can
\* leave: the state in which startup_event returns, for every combination of
\* answers of the site.
RECURSIVE SumErrors(_, _)
SumErrors(site, i) ==
    IF i = 0 THEN 0 ELSE fetch_errors(site[STATES_keys[i]]) + SumErrors(site, i - 1)

\* What the startup cycle leaves in the cache and the statistics.
AfterStartup ==
    /\ _scheduler = Some("running")
    /\ task_pc = "idle"
    /\ sem_value = SCRAPE_CONCURRENCY
    /\ global_start = 0
    /\ cycles = 1
    /\ clock = NumStates + 2
    /\ \E site \in [STATES -> Responses] :
          /\ competitions_data =
                 [s \in STATES |->
                     CommittedRecords(EmptyDict, s, fetch_and_extract_data(site[s]))]
          /\ cache_metadata =
                 [s \in STATES |->
                     CommittedMetadata(fetch_and_extract_data(site[s]), 1,
                                       1 + IndexOf(s))]
          /\ global_statistics =
                 [total_updates |-> 1, total_errors |-> SumErrors(site, NumStates),
                  last_update_time_seconds |-> NumStates + 2,
                  last_complete_update |-> Some(NumStates + 2)]

InitQuery ==
    /\ InitMcp
    /\ fetch = [s \in STATES |-> "none"]
    /\ results = [s \in STATES |-> Outcome(<<>>, FALSE)]
    /\ http_response = None
    /\ AfterStartup

NextQuery == \E req \in QueryRequests : GetCompetitionsEndpoint(req)

SpecQuery == InitQuery /\ [][NextQuery]_vars

\* Every state in which the startup cycle has returned is one of them.
StartupLeavesInitQuery == (cycles = 1 /\ task_pc = "idle") => AfterStartup

(***************************************************************************)
(* GET /health alone, on the catalog of 27 states: a cache in which the    *)
(* last refresh succeeded for the first k states of the catalog and        *)
(* failed for the others, the first m of which still hold the records of   *)
(* an earlier refresh.                                                     *)
(***************************************************************************)
FullCatalog == {Catalog[i] : i \in 1..Len(Catalog)}
PositionOf(state) == CHOOSE i \in 1..Len(Catalog) : Catalog[i] = state
RefreshedRecords == ExtractRows(DataRows(TableA))

InitHealth ==
    /\ InitMcp
    /\ _scheduler = Some("running")
    /\ task_pc = "idle"
    /\ fetch = [s \in STATES |-> "none"]
    /\ results = [s \in STATES |-> Outcome(<<>>, FALSE)]
    /\ sem_value = SCRAPE_CONCURRENCY
    /\ global_start = 0
    /\ cycles = MaxCycles
    /\ clock = 0
    /\ http_response = None
    /\ global_statistics = [total_updates |-> MaxCycles, total_errors |-> 0,
                            last_update_time_seconds |-> 0,
                            last_complete_update |-> Some(0)]
    /\ \E k \in 0..Len(Catalog) :
          \E m \in 0..(Len(Catalog) - k) :
             /\ competitions_data =
                    [s \in FullCatalog |->
                        IF PositionOf(s) <= k + m THEN RefreshedRecords ELSE <<>>]
             /\ cache_metadata =
                    [s \in FullCatalog |->
                        IF PositionOf(s) <= k
                        THEN CommittedMetadata(Outcome(RefreshedRecords, TRUE), 0,
                                               PositionOf(s))
                        ELSE CommittedMetadata(Outcome(<<>>, FALSE), 0,
                                               PositionOf(s))]

NextHealth == HealthCheck(FullCatalog)

SpecHealth == InitHealth /\ [][NextHealth]_vars

SpecApi == Init /\ [][NextApi]_vars
SpecApiAll == Init /\ [][NextApiAll]_vars

\* The steps of a refresh cycle that is in progress.  The event loop runs
\* every coroutine that is ready, and every GET resolves (with an answer or,
\* after SCRAPE_TIMEOUT_SECONDS, with a timeout).
CycleStep ==
    \/ \E s \in STATES : Acquire(s)
    \/ \E s \in STATES, r \in Responses : FetchAndExtract(s, r)
    \/ CommitResults
    \/ FinishCycle

\* The refresh of the HTTP API alone, without clients: the queries write
\* nothing a cycle reads, so they neither enable nor disable its steps.
NextRefresh ==
    \/ StartupEvent
    \/ ScheduledJob
    \/ \E s \in STATES : Acquire(s)
    \/ \E s \in STATES, r \in Responses : FetchAndExtract(s, r)
    \/ CommitResults
    \/ FinishCycle

SpecRefreshFair == Init /\ [][NextRefresh]_vars /\ WF_vars(CycleStep)
SpecMcp == Init /\ [][NextMcp]_vars
Spec == Init /\ [][Next]_vars

(***************************************************************************)
(* Properties of the HTTP API.                                             *)
(***************************************************************************)
\* The step in which periodic_update_task runs its commit loop.
CommitStep == task_pc = "gather" /\ task_pc' = "closing"
\* The step in which periodic_update_task returns.
FinishStep == task_pc = "closing" /\ task_pc' = "idle"

\* The records a reader finds for a state: competitions_data.get(state, []).
CachedRecords(s) == Get(competitions_data, s, <<>>)

ExtractionFailed(s) == ~results[s].ok \/ results[s].comps = <<>>

\* C1: in a refresh cycle of the HTTP API, a state whose extraction failed or
\* yielded no record keeps the records cached for it before the cycle and
\* gets metadata with success = false and total_competitions = 0; a state
\* whose extraction succeeded with at least one record gets the new records
\* and metadata with success = true.
C1_CommitRetainsOnFailure ==
    [][CommitStep =>
         \A s \in STATES :
            /\ s \in DOMAIN cache_metadata'
            /\ IF ExtractionFailed(s)
               THEN /\ CachedRecords(s)' = CachedRecords(s)
                    /\ cache_metadata'[s].success = FALSE
                    /\ cache_metadata'[s].total_competitions = 0
               ELSE /\ CachedRecords(s)' = results[s].comps
                    /\ cache_metadata'[s].success = TRUE]_vars

\* A state serves records of an earlier cycle after a failed one, while
\* another state was refreshed in the same cycle.
C1_Witness ==
    /\ cycles = 2 /\ task_pc = "closing"
    /\ \E s, t \in STATES :
          /\ ExtractionFailed(s) /\ CachedRecords(s) # <<>>
          /\ ~cache_metadata[s].success
          /\ ~ExtractionFailed(t) /\ cache_metadata[t].success
          /\ CachedRecords(t) = results[t].comps

Running == {s \in STATES : fetch[s] = "running"}

\* C3: in a refresh cycle of the HTTP API at most SCRAPE_CONCURRENCY fetches
\* execute at any time, and every executing fetch holds a slot of the
\* semaphore: a fetch coroutine does not run before it has acquired one.
C3_BoundedConcurrency ==
    /\ Cardinality(Running) <= SCRAPE_CONCURRENCY
    /\ sem_value = SCRAPE_CONCURRENCY - Cardinality(Running)

\* All slots are taken and a created fetch has not started.
C3_Witness ==
    /\ Cardinality(Running) = SCRAPE_CONCURRENCY
    /\ \E s \in STATES : fetch[s] = "waiting"

CompletedCycles == IF task_pc \in {"gather", "closing"} THEN cycles - 1 ELSE cycles

\* C5: every completed refresh cycle of the HTTP API adds exactly one to
\* total_updates and sets last_complete_update, whatever the outcomes of the
\* extractions; no other step changes total_updates, which therefore equals
\* the number of completed cycles.
C5_OneUpdatePerCycle ==
    /\ [](global_statistics.total_updates = CompletedCycles)
    /\ [][IF FinishStep
          THEN /\ global_statistics'.total_updates =
                      global_statistics.total_updates + 1
               /\ global_statistics'.last_complete_update = Some(clock')
               /\ global_statistics'.last_complete_update #
                      global_statistics.last_complete_update
          ELSE global_statistics'.total_updates =
                   global_statistics.total_updates]_vars

\* Two cycles have completed: one in which no extraction failed, then one in
\* which all failed.
C5_Witness ==
    /\ global_statistics.total_updates = 2
    /\ task_pc = "idle"
    /\ \A s \in STATES :
          ~cache_metadata[s].success /\ CachedRecords(s) # <<>>

\* What a query without filters shows for a state.
View(s) == process_competitions_data(s, None, None)
IsPlaceholder(view) == "message" \in DOMAIN view
ShownRecords(view) == view.open_competitions \o view.scheduled_competitions

\* C7: once a cycle has cached at least one record for a state, a query for
\* the state returns those records until a later cycle succeeds for it: a
\* cycle whose extraction fails leaves the returned records as they were and
\* shows success = false in the metadata, and the query neither raises nor
\* returns the placeholder; no step other than a commit changes the cache
\* the query reads.
C7_StaleDataServed ==
    [][\A s \in STATES :
         IF CommitStep
         THEN /\ ~ExtractionFailed(s) =>
                   /\ ~IsPlaceholder(View(s)') /\ ~HasRaised(View(s)')
                   /\ View(s)'.open_competitions =
                          SelectSeq(results[s].comps, LAMBDA c : c.status = OPEN)
                   /\ View(s)'.scheduled_competitions =
                          SelectSeq(results[s].comps, LAMBDA c : c.status = SCHEDULED)
                   /\ View(s)'.metadata[1].success = TRUE
              /\ (ExtractionFailed(s) /\ CachedRecords(s) # <<>>) =>
                   /\ ~IsPlaceholder(View(s)') /\ ~HasRaised(View(s)')
                   /\ View(s)'.open_competitions = View(s).open_competitions
                   /\ View(s)'.scheduled_competitions = View(s).scheduled_competitions
                   /\ View(s)'.metadata[1].success = FALSE
         ELSE /\ competitions_data' = competitions_data
              /\ cache_metadata' = cache_metadata]_vars

\* After a successful cycle and a failed one, a request for the state was
\* answered with the records of the first cycle and success = false.
C7_Witness ==
    /\ cycles = 2 /\ task_pc = "idle"
    /\ http_response # None
    /\ http_response[1].path = "/states"
    /\ LET req == http_response[1].request
           res == http_response[1].response
       IN /\ req.status = None /\ req.search = None
          /\ res.status_code = 200
          /\ ~IsPlaceholder(res.body[1])
          /\ ShownRecords(res.body[1]) # <<>>
          /\ res.body[1].metadata[1].success = FALSE


\* The cached records of a state that a query with these arguments selects.
PassesSearch(c, search) ==
    search = None \/ search[1] = <<>>
    \/ Contains(lower(search[1]), lower(c.organization))
Selected(s, F, search) ==
    SelectSeq(CachedRecords(s), LAMBDA c : c.status = F /\ PassesSearch(c, search))

FilteredViewCorrect(s, F, search) ==
    LET view == process_competitions_data(s, Some(F), search)
        wanted == Selected(s, F, search)
        same == IF F = OPEN THEN view.open_competitions
                ELSE view.scheduled_competitions
        other == IF F = OPEN THEN view.scheduled_competitions
                 ELSE view.open_competitions
    IN /\ ~HasRaised(view)
       /\ other = <<>>
       /\ same = wanted
       /\ \A i \in 1..Len(same) : same[i].status = F
       /\ "total_open" \in DOMAIN view /\ "total_scheduled" \in DOMAIN view
       /\ view.total_open = Len(view.open_competitions)
       /\ view.total_scheduled = Len(view.scheduled_competitions)

\* C9 as stated: for any cached record set, the empty one included.
C9_FilterAnyRecordSet ==
    \A s \in STATES, F \in StatusFilters, search \in SearchArguments :
        s \in DOMAIN competitions_data => FilteredViewCorrect(s, F, search)

\* C9 (amended): for any non-empty cached record set of a state and any
\* status filter F, the query returns exactly the cached records of status F
\* that pass the search filter, the group of the other status is empty, and
\* total_open / total_scheduled are the lengths of the returned lists.
C9_FilterNonEmptyRecordSet ==
    \A s \in STATES, F \in StatusFilters, search \in SearchArguments :
        CachedRecords(s) # <<>> => FilteredViewCorrect(s, F, search)

\* A request with status = open was answered from a record set that holds a
\* scheduled record, which the answer leaves out.
C9_Witness ==
    /\ http_response # None
    /\ http_response[1].path = "/states"
    /\ LET req == http_response[1].request
           res == http_response[1].response
       IN /\ req.status = Some(OPEN)
          /\ res.status_code = 200
          /\ \E i \in 1..Len(CachedRecords(lower(req.state_code))) :
                CachedRecords(lower(req.state_code))[i].status = SCHEDULED
          /\ res.body[1].total_open > 0
          /\ res.body[1].total_scheduled = 0

\* C10: for any cached record set and any non-empty search text, the query
\* returns exactly the records whose organization contains the text,
\* compared case-insensitively; positions and url are not searched.
C10_SearchOrganizationOnly ==
    \A s \in STATES, t \in SearchTexts :
        LET view == process_competitions_data(s, None, Some(t))
            wanted == SelectSeq(CachedRecords(s),
                                LAMBDA c : Contains(lower(t), lower(c.organization)))
        IN /\ ~HasRaised(view)
           /\ view.open_competitions =
                  SelectSeq(wanted, LAMBDA c : c.status = OPEN)
           /\ view.scheduled_competitions =
                  SelectSeq(wanted, LAMBDA c : c.status = SCHEDULED)

\* A request with a search text in another letter case was answered with a
\* matching record, leaving out a cached record that has the text in its url
\* and positions only.
C10_Witness ==
    /\ http_response # None
    /\ http_response[1].path = "/states"
    /\ LET req == http_response[1].request
           res == http_response[1].response
           cached == CachedRecords(lower(req.state_code))
       IN /\ req.search # None
          /\ res.status_code = 200
          /\ ~IsPlaceholder(res.body[1])
          /\ \E i \in 1..Len(res.body[1].open_competitions) :
                res.body[1].open_competitions[i].organization # lower(res.body[1].open_competitions[i].organization)
          /\ \E i \in 1..Len(cached) :
                /\ ~Contains(lower(req.search[1]), lower(cached[i].organization))
                /\ cached[i].url # None
                /\ Contains(lower(req.search[1]), lower(cached[i].url[1]))
                /\ \A j \in 1..Len(ShownRecords(res.body[1])) :
                      ShownRecords(res.body[1])[j] # cached[i]

(***************************************************************************)
(* Properties of the MCP server, and of both servers.                      *)
(***************************************************************************)
\* The step in which coroutine t runs the commit loop of its cycle.
McpCommitStep(t) == mcp_pc[t] = "gather" /\ mcp_pc'[t] # "gather"

McpCachedRecords(s) == Get(mcp_competitions_data, s, <<>>)

\* C2: in a refresh cycle of the MCP server, a state whose fetch failed keeps
\* the records cached for it by an earlier cycle.
C2_McpRetainsOnFailure ==
    [][\A t \in Coroutines, s \in STATES :
          (McpCommitStep(t) /\ mcp_results[t][s] = <<>>) =>
              McpCachedRecords(s)' = McpCachedRecords(s)]_vars

McpInFlight(t) == {s \in STATES : mcp_fetch[t][s] = "running"}

\* C4: in a refresh cycle of the MCP server at most the concurrency limit of
\* fetches are in flight at any time.
C4_McpBoundedConcurrency ==
    \A t \in Coroutines : Cardinality(McpInFlight(t)) <= SCRAPE_CONCURRENCY

\* C6: within a refresh cycle nothing is written to the cached records or the
\* metadata while a fetch of that cycle is unresolved: a step that changes
\* them is taken by a cycle all of whose fetches have returned.
C6_CommitAfterAllFetches ==
    [][/\ (competitions_data' # competitions_data
              \/ cache_metadata' # cache_metadata) =>
            (task_pc = "gather" /\ \A s \in STATES : fetch[s] = "done")
       /\ mcp_competitions_data' # mcp_competitions_data =>
            \E t \in Coroutines :
               /\ McpCommitStep(t)
               /\ \A s \in STATES : mcp_fetch[t][s] = "done"]_vars

\* A fetch of the cycle has returned records while another one is still
\* unresolved, and the records are not in the cache.
C6_Witness ==
    /\ task_pc = "gather"
    /\ \E s, t \in STATES :
          /\ fetch[s] = "done" /\ results[s].ok /\ results[s].comps # <<>>
          /\ fetch[t] # "done"
          /\ CachedRecords(s) # results[s].comps

IsPlaceholderView(view) ==
    /\ ~HasRaised(view)
    /\ IsPlaceholder(view)
    /\ view.message # ""
    /\ view.open_competitions = <<>>
    /\ view.scheduled_competitions = <<>>

\* C8: for every catalog state without cached records (never refreshed, or
\* only refreshed without success) a query returns the placeholder view (a
\* message, empty open and scheduled lists) for every status filter and
\* search text, and does not raise; in the HTTP API and in the MCP server.
C8_PlaceholderWhenNoRecords ==
    \A s \in STATES :
        /\ CachedRecords(s) = <<>> =>
              \A F \in StatusArguments, search \in SearchArguments :
                  IsPlaceholderView(process_competitions_data(s, F, search))
        /\ McpCachedRecords(s) = <<>> =>
              IsPlaceholderView(mcp_process_competitions_data(mcp_competitions_data, s))

\* A tool call was answered with the placeholder before any cycle had
\* written the cache.
C8_Witness ==
    /\ mcp_response # None
    /\ DOMAIN mcp_competitions_data = {}
    /\ mcp_response[1].answer.kind = "competitions"
    /\ IsPlaceholderView(mcp_response[1].answer.payload)
(***************************************************************************)
(* Properties of GET /health.                                              *)
(***************************************************************************)
\* The states whose most recent refresh metadata has success = true.
SuccessfulStates == {s \in DOMAIN cache_metadata : cache_metadata[s].success}
\* The states that serve records of an earlier refresh after a failed one.
StaleStates ==
    {s \in DOMAIN cache_metadata :
        ~cache_metadata[s].success /\ CachedRecords(s) # <<>>}

HealthAnswered == http_response # None /\ http_response[1].path = "/health"
HealthBody == http_response[1].response.body[1]

\* C11: with k of the 27 catalog states having success = true in their most
\* recent metadata, /health reports "healthy" exactly when k >= 22,
\* "degraded" exactly when 14 <= k <= 21 and "unhealthy" exactly when
\* k <= 13; a state that serves stale records after a failed refresh is not
\* counted.
C11_HealthClassification ==
    HealthAnswered =>
        LET k == Cardinality(SuccessfulStates)
        IN /\ HealthBody.total_states = 27
           /\ HealthBody.available_states = k
           /\ (HealthBody.status = "healthy") <=> (k >= 22)
           /\ (HealthBody.status = "degraded") <=> (14 <= k /\ k <= 21)
           /\ (HealthBody.status = "unhealthy") <=> (k <= 13)

\* /health answered "degraded" with 21 refreshed states while a further
\* state still serves stale records.
C11_Witness ==
    /\ HealthAnswered
    /\ Cardinality(SuccessfulStates) = 21
    /\ StaleStates # {}
    /\ HealthBody.status = "degraded"

(***************************************************************************)
(* Properties of the validation of the state code.                         *)
(***************************************************************************)
StatesAnswered == http_response # None /\ http_response[1].path = "/states"
GetCompetitionsAnswered ==
    mcp_response # None /\ mcp_response[1].call.name = "get_competitions"

\* C12: a query for a code that is not a catalog code after lower-casing
\* yields NotFound (HTTP 404 in the API, an error payload in the MCP
\* get_competitions tool), does not reach process_competitions_data and
\* does not change the cache; a catalog code in any letter case is accepted
\* and answered without a lookup error.
C12_UnknownCodeNotFound ==
    [][/\ StatesAnswered' =>
            LET req == http_response'[1].request
                res == http_response'[1].response
            IN IF lower(req.state_code) \in STATES
               THEN res.status_code = 200 /\ ~HasRaised(res.body[1])
               ELSE /\ res = HttpNotFound
                    /\ competitions_data' = competitions_data
                    /\ cache_metadata' = cache_metadata
       /\ GetCompetitionsAnswered' =>
            LET call == mcp_response'[1].call
                answer == mcp_response'[1].answer
            IN IF lower(call.state) \in STATES
               THEN answer.kind = "competitions" /\ ~HasRaised(answer.payload)
               ELSE /\ answer.kind = "error"
                    /\ mcp_competitions_data' = mcp_competitions_data]_vars

(***************************************************************************)
(* Properties of the queries of the HTTP API as a whole.                   *)
(***************************************************************************)
\* A step in which a request is answered.
QueryStep == http_response' # None /\ http_response' # http_response

\* C13: a query (GET /states/{code} with any arguments, GET /stats/global,
\* GET /health), in any state of the cache, leaves the cached records, the
\* metadata and the global statistics as they were.
C13_QueriesReadOnly ==
    [][QueryStep =>
         /\ competitions_data' = competitions_data
         /\ cache_metadata' = cache_metadata
         /\ global_statistics' = global_statistics]_vars

\* /stats/global was answered in the middle of a refresh cycle, with
\* records in the cache and errors counted.
C13_Witness ==
    /\ http_response # None
    /\ http_response[1].path = "/stats/global"
    /\ task_pc = "gather"
    /\ global_statistics.total_errors > 0
    /\ http_response[1].response.body[1].statistics = global_statistics
    /\ http_response[1].response.body[1].total_competitions > 0

(***************************************************************************)
(* Properties of the failures of the extraction.                           *)
(***************************************************************************)
\* The answers with which an extraction fails: non-200 status, missing
\* table, timeout, any other exception.
FailedResponses ==
    {r \in Responses : r.kind # "response" \/ r.status_code # 200 \/ r.table = None}

\* C14: whatever subset of the states fails in a cycle, each failure (non-200
\* status, missing table, timeout, other exception) becomes the outcome
\* (empty, not ok) of that state alone and the cycle stays in its gather;
\* no exception abandons the cycle; the commit still writes the records of
\* every state that succeeded; and the cycle runs to completion.
C14_FailuresContained ==
    /\ [][\A s \in STATES, r \in FailedResponses :
             FetchAndExtract(s, r) =>
                /\ results'[s] = Outcome(<<>>, FALSE)
                /\ fetch'[s] = "done"
                /\ \A t \in STATES \ {s} :
                      results'[t] = results[t] /\ fetch'[t] = fetch[t]
                /\ task_pc' = "gather"]_vars
    /\ [](task_pc # "aborted")
    /\ [][CommitStep =>
             \A t \in STATES :
                ~ExtractionFailed(t) => CachedRecords(t)' = results[t].comps]_vars
    /\ (task_pc = "gather") ~> (task_pc = "idle")

\* The startup cycle has completed although a fetch raised and another state
\* failed without raising, and the records of a state that succeeded are
\* cached.
C14_Witness ==
    /\ cycles = 1 /\ task_pc = "idle"
    /\ global_statistics.total_updates = 1
    /\ global_statistics.total_errors = 1
    /\ \E s \in STATES : ~cache_metadata[s].success
    /\ \E t \in STATES : cache_metadata[t].success /\ CachedRecords(t) # <<>>

(***************************************************************************)
(* Properties of the extraction of a row.                                  *)
(***************************************************************************)
\* The rows of a table that yield a record, in order.
RecordRows(table) == SelectSeq(DataRows(table), LAMBDA cells : Len(cells) >= 2)
Pages == {TableA, TableB, TableEmpty}

\* The row contains the word in some letter case.
RowHasWord(cells) == Contains(previsto, lower(ConcatText(cells)))

RecordAsClaimed(cells, c) ==
    IF RowHasWord(cells)
    THEN /\ c.status = SCHEDULED
         /\ ~Contains(previsto, lower(c.organization))
         /\ c.organization = strip(c.organization)
    ELSE /\ c.status = OPEN
         /\ c.organization = cells[1].text

RecordsAsClaimed(table, comps) ==
    /\ Len(comps) = Len(RecordRows(table))
    /\ \A i \in 1..Len(comps) : RecordAsClaimed(RecordRows(table)[i], comps[i])

\* C15: a row whose text contains "previsto" in any letter case yields a
\* SCHEDULED record whose organization no longer contains the word (in any
\* letter case) and is trimmed; a row without the word yields an OPEN record
\* with the organization text of the row; in both servers.
C15_ScheduledWordStripped ==
    \A s \in STATES, page \in Pages :
        /\ (fetch[s] = "done" /\ results[s].ok
               /\ results[s].comps = ExtractRows(DataRows(page)))
              => RecordsAsClaimed(page, results[s].comps)
        /\ \A t \in Coroutines :
              (mcp_fetch[t][s] = "done"
                 /\ mcp_results[t][s] = ExtractRows(DataRows(page)))
                => RecordsAsClaimed(page, mcp_results[t][s])

(***************************************************************************)
(* Properties of the commit as seen by a concurrent query.                 *)
(***************************************************************************)
MetadataOf(s) == IF s \in DOMAIN cache_metadata THEN Some(cache_metadata[s]) ELSE None

\* C16: the records and the metadata of a state are written in one step: a
\* step that changes the records of a state is a commit that also writes
\* the metadata of that cycle for them, a step that writes success = true
\* metadata also writes the records they describe, and the answer to a
\* query carries the records and the metadata of one and the same state of
\* the cache.
C16_CommitAtomic ==
    [][/\ \A s \in STATES :
            /\ CachedRecords(s)' # CachedRecords(s) =>
                  /\ CommitStep /\ ~ExtractionFailed(s)
                  /\ MetadataOf(s)' # MetadataOf(s)
                  /\ cache_metadata'[s].success
                  /\ cache_metadata'[s].last_update = clock
                  /\ cache_metadata'[s].total_competitions = Len(CachedRecords(s)')
            /\ (MetadataOf(s)' # MetadataOf(s) /\ cache_metadata'[s].success) =>
                  /\ CommitStep
                  /\ CachedRecords(s)' = results[s].comps
                  /\ cache_metadata'[s].total_competitions = Len(CachedRecords(s)')
       /\ (QueryStep /\ StatesAnswered') =>
            LET req == http_response'[1].request
                res == http_response'[1].response
                s == lower(req.state_code)
            IN (res.status_code = 200 /\ req.status = None /\ req.search = None) =>
                  /\ res.body[1].metadata = MetadataOf(s)
                  /\ ShownRecords(res.body[1]) =
                         SelectSeq(CachedRecords(s), LAMBDA c : c.status = OPEN)
                         \o SelectSeq(CachedRecords(s), LAMBDA c : c.status = SCHEDULED)]_vars

\* A query was answered while the second cycle had committed but not yet
\* returned: it shows the records and the metadata of that commit.
C16_Witness ==
    /\ cycles = 2 /\ task_pc = "closing"
    /\ StatesAnswered
    /\ LET res == http_response[1].response
           s == lower(http_response[1].request.state_code)
       IN /\ res.status_code = 200
          /\ ~IsPlaceholder(res.body[1])
          /\ res.body[1].metadata[1].success
          /\ res.body[1].metadata[1].last_update = clock - NumStates
          /\ ShownRecords(res.body[1]) # <<>>
          /\ Len(ShownRecords(res.body[1])) = Len(results[s].comps)

(***************************************************************************)
(* Properties of the scheduling of the refresh cycles.                     *)
(***************************************************************************)
\* The executions of periodic_update_task that are in progress.
ApiCyclesInProgress == IF task_pc \in {"gather", "closing"} THEN 1 ELSE 0
McpCyclesInProgress == Cardinality({t \in Coroutines : mcp_pc[t] = "gather"})

\* C17: at most one refresh cycle is in progress at any time, and a cycle
\* starts only when no other one is in progress; in the HTTP API (startup
\* cycle, then the scheduled ones) and in the MCP server (the cycle awaited
\* by the first tool call, and the ones run by update_loop).
C17_OneCycleAtATime ==
    /\ [](ApiCyclesInProgress <= 1 /\ McpCyclesInProgress <= 1)
    /\ [][/\ cycles' > cycles => ApiCyclesInProgress = 0
          /\ mcp_cycles' > mcp_cycles => McpCyclesInProgress = 0]_vars

\* C18: in the MCP server the update_loop task is created at most once,
\* under any interleaving of tool calls: a task is created only by a call
\* that finds _update_loop_started false and sets it in the same step, and
\* the flag is never cleared.
C18_LoopCreatedOnce ==
    /\ [](update_loop_tasks <= 1)
    /\ [][/\ update_loop_tasks' # update_loop_tasks =>
               /\ update_loop_tasks = 0 /\ update_loop_tasks' = 1
               /\ ~_update_loop_started /\ _update_loop_started'
          /\ _update_loop_started => _update_loop_started']_vars

\* A second tool call was answered while the first one was still suspended
\* in its initial refresh, and one task exists.
C18_Witness ==
    /\ mcp_pending # None
    /\ mcp_response # None
    /\ ~_first_update_done
    /\ DOMAIN mcp_competitions_data = {}
    /\ update_loop_tasks = 1

(***************************************************************************)
(* Properties of the metadata and the statistics of a cycle.               *)
(***************************************************************************)
\* C19: the metadata a refresh cycle of the HTTP API writes carry one and
\* the same update_time_seconds for every state, succeeded or failed, and
\* that value is the time elapsed since the cycle started, as read during
\* the commit.
C19_SharedUpdateTime ==
    [][CommitStep =>
         \E elapsed \in (clock - global_start)..(clock' - global_start) :
            \A s \in STATES :
               cache_metadata'[s].update_time_seconds = elapsed]_vars

\* A step in which the fetch of some state returns.
FetchReturns == \E s \in STATES : fetch[s] = "running" /\ fetch'[s] = "done"

\* C20: total_errors grows by exactly one with each fetch that ends in a
\* timeout or another exception and is left unchanged by a fetch that ends
\* in a non-200 response, a missing table or a success; no other step
\* changes it, so it is never decreased or reset; total_updates never
\* decreases either.
C20_ErrorsCountedOnce ==
    [][/\ \A s \in STATES :
            (fetch[s] = "running" /\ fetch'[s] = "done") =>
               IF results'[s].ok
               THEN global_statistics'.total_errors = global_statistics.total_errors
               ELSE \A r \in FailedResponses :
                       FetchAndExtract(s, r) =>
                          global_statistics'.total_errors =
                             global_statistics.total_errors
                             + (IF r.kind \in {"timeout", "exception"} THEN 1 ELSE 0)
       /\ global_statistics'.total_errors # global_statistics.total_errors =>
            /\ FetchReturns
            /\ global_statistics'.total_errors = global_statistics.total_errors + 1
       /\ global_statistics'.total_updates >= global_statistics.total_updates]_vars

\* The second cycle has completed; over the two cycles every fetch failed
\* and exactly one of the failures was a timeout or an exception.
C20_Witness ==
    /\ cycles = 2 /\ task_pc = "idle"
    /\ global_statistics.total_updates = 2
    /\ global_statistics.total_errors = 1
    /\ \A s \in STATES : ~cache_metadata[s].success /\ CachedRecords(s) = <<>>

(***************************************************************************)
(* Properties of the lifecycle of the metadata.                            *)
(***************************************************************************)
\* The cycles that have run their commit loop.
CommittedCycles == IF task_pc = "gather" THEN cycles - 1 ELSE cycles

AllStatesCached ==
    \A s \in STATES : s \in DOMAIN cache_metadata /\ s \in DOMAIN competitions_data

\* datetime.now() as read by the commit loop of the most recent completed
\* cycle: the loop takes NumStates units and the cycle returns one unit
\* later, when it writes last_complete_update.
LastCompletedCommit == global_statistics.last_complete_update[1] - NumStates - 1

\* C21 as stated: no metadata before the first cycle has completed; after a
\* completed cycle every state has a metadata and a cache entry, and the
\* metadata are those written by the most recent completed cycle.
C21_MetadataOfLastCompletedCycle ==
    IF CompletedCycles = 0
    THEN DOMAIN cache_metadata = {}
    ELSE /\ AllStatesCached
         /\ \A s \in STATES : cache_metadata[s].last_update = LastCompletedCommit

\* C21 (amended): no state has a metadata entry before the first cycle has
\* run its commit loop, and a query then reports the metadata as absent;
\* once a cycle has committed, every catalog state has a metadata and a
\* cache entry; every commit writes the metadata of all states anew, and no
\* other step changes them, so each entry is the one written by the most
\* recent commit.
C21_MetadataOfLastCommit ==
    /\ [](IF CommittedCycles = 0
          THEN /\ DOMAIN cache_metadata = {}
               /\ \A s \in STATES : View(s).metadata = None
          ELSE AllStatesCached)
    /\ [][IF CommitStep
          THEN \A s \in STATES : cache_metadata'[s].last_update = clock
          ELSE cache_metadata' = cache_metadata]_vars
    /\ [](task_pc = "idle" =>
             \A s \in STATES : cache_metadata[s].last_update = LastCompletedCommit)

\* The second cycle has committed and not yet returned: a state that failed
\* in it and serves the records of the first cycle carries the metadata of
\* the second commit.
C21_Witness ==
    /\ cycles = 2 /\ task_pc = "closing"
    /\ global_statistics.total_updates = 1
    /\ \E s \in STATES :
          /\ ~cache_metadata[s].success
          /\ CachedRecords(s) # <<>>
          /\ cache_metadata[s].last_update = clock - NumStates
          /\ cache_metadata[s].last_update > LastCompletedCommit

(***************************************************************************)
(* One fetch per state and cycle.                                          *)
(***************************************************************************)
\* The moves of the fetch of state s within the API server: it is created
\* with a new cycle, passes the gate once, returns once, and is discarded
\* when the cycle returns.
ApiFetchMoves(s) ==
    \/ fetch'[s] = fetch[s]
    \/ fetch[s] = "none" /\ fetch'[s] = "waiting" /\ cycles' = cycles + 1
    \/ fetch[s] = "waiting" /\ fetch'[s] = "running" /\ cycles' = cycles
    \/ fetch[s] = "running" /\ fetch'[s] = "done" /\ cycles' = cycles
    \/ fetch[s] = "done" /\ fetch'[s] = "none" /\ FinishStep

\* The moves of the fetch of state s in the cycle run by coroutine t of the
\* MCP server.
McpFetchMoves(t, s) ==
    \/ mcp_fetch'[t][s] = mcp_fetch[t][s]
    \/ /\ mcp_fetch[t][s] = "none" /\ mcp_fetch'[t][s] = "running"
       /\ mcp_cycles' = mcp_cycles + 1
    \/ /\ mcp_fetch[t][s] = "running" /\ mcp_fetch'[t][s] = "done"
       /\ mcp_cycles' = mcp_cycles
    \/ /\ mcp_fetch[t][s] = "done" /\ mcp_fetch'[t][s] = "none"
       /\ McpCommitStep(t)

\* C22: within one refresh cycle every catalog state is fetched exactly
\* once.  A cycle creates one fetch for every state; a fetch starts once and
\* returns once, and after it has returned, with a failure as with records,
\* the state is not fetched again before the next cycle begins; a cycle
\* commits only when the fetch of every state has returned.
C22_OneFetchPerStateAndCycle ==
    /\ [][\A s \in STATES : ApiFetchMoves(s)]_vars
    /\ [][\A t \in Coroutines : \A s \in STATES : McpFetchMoves(t, s)]_vars
    /\ [][cycles' # cycles => \A s \in STATES : fetch'[s] = "waiting"]_vars
    /\ [][mcp_cycles' # mcp_cycles =>
            \E t \in Coroutines : \A s \in STATES :
                mcp_fetch[t][s] = "none" /\ mcp_fetch'[t][s] = "running"]_vars
    /\ [][CommitStep => \A s \in STATES : fetch[s] = "done"]_vars
    /\ [][\A t \in Coroutines :
            McpCommitStep(t) => \A s \in STATES : mcp_fetch[t][s] = "done"]_vars

\* In the second cycle the fetch of one state has failed and stays returned
\* while the fetch of a state that failed in the first cycle is running.
C22_Witness ==
    /\ cycles = 2 /\ task_pc = "gather"
    /\ \E s, t \in STATES :
          /\ fetch[t] = "done" /\ ~results[t].ok
          /\ fetch[s] = "running" /\ ~cache_metadata[s].success

(***************************************************************************)
(* Progress of a refresh cycle of the HTTP API.                            *)
(***************************************************************************)
FetchesRunning == {s \in STATES : fetch[s] = "running"}

\* C23: when every GET resolves and the limit is at least 1, every fetch
\* that waits at the gate eventually acquires a slot; the slots taken are
\* those of the running fetches, and a fetch that returns gives its slot
\* back when it failed as when it succeeded; every cycle that has started
\* eventually runs its commit loop and then returns, and the step in which
\* it returns increments total_updates.
C23_CycleMakesProgress ==
    /\ SCRAPE_CONCURRENCY >= 1
    /\ \A s \in STATES : (fetch[s] = "waiting") ~> (fetch[s] = "running")
    /\ [](task_pc = "gather" =>
             sem_value + Cardinality(FetchesRunning) = SCRAPE_CONCURRENCY)
    /\ [][\A s \in STATES :
             fetch[s] = "running" /\ fetch'[s] # "running" =>
                sem_value' = sem_value + 1]_vars
    /\ (task_pc = "gather") ~> (task_pc = "closing")
    /\ (task_pc = "closing") ~> (task_pc = "idle")
    /\ [][/\ CommitStep \/ FinishStep => cycles' = cycles
          /\ FinishStep =>
                global_statistics'.total_updates =
                    global_statistics.total_updates + 1]_vars

\* A fetch has failed and given its slot back, and a fetch that waited
\* behind it holds a slot.
C23_Witness ==
    /\ task_pc = "gather"
    /\ global_statistics.total_updates = cycles - 1
    /\ sem_value = SCRAPE_CONCURRENCY - 1
    /\ \E s, t \in STATES :
          /\ IndexOf(t) < IndexOf(s)
          /\ fetch[t] = "done" /\ results[t] = Outcome(<<>>, FALSE)
          /\ fetch[s] = "running"

(***************************************************************************)
(* The metadata against the cached records.                                *)
(***************************************************************************)
\* C24: for every state that has metadata, success = true implies that
\* total_competitions is the number of records cached for the state and is
\* at least 1, and success = false implies total_competitions = 0, also
\* when records of an earlier cycle are still cached for the state.
C24_MetadataCountsCachedRecords ==
    \A s \in DOMAIN cache_metadata :
        IF cache_metadata[s].success
        THEN /\ cache_metadata[s].total_competitions = Len(CachedRecords(s))
             /\ cache_metadata[s].total_competitions >= 1
        ELSE cache_metadata[s].total_competitions = 0

\* A state failed in the second cycle and a query is answered: its metadata
\* count nothing while the records of the first cycle are served; another
\* state succeeded and its metadata count its records.
C24_Witness ==
    /\ cycles = 2 /\ task_pc = "idle"
    /\ http_response # None
    /\ \E s, t \in STATES :
          /\ ~cache_metadata[s].success
          /\ cache_metadata[s].total_competitions = 0
          /\ Len(CachedRecords(s)) >= 1
          /\ cache_metadata[t].success
          /\ cache_metadata[t].total_competitions = Len(CachedRecords(t))

(***************************************************************************)
(* The first refresh of the MCP server against its tool calls.             *)
(***************************************************************************)
\* The step answers a tool call from the cache.
AnsweredFromCache ==
    /\ mcp_response # None
    /\ mcp_response[1].call.name \in {"get_competitions", "search_competitions_all"}
    /\ mcp_response[1].answer.kind \in {"competitions", "summary"}

\* A refresh cycle of the MCP server has run its commit loop, which writes
\* an entry for every catalog state.
McpCycleCompleted == DOMAIN mcp_competitions_data # {}

\* C25: no tool call that reads the cache builds its response before a
\* refresh cycle of the MCP server has completed, whatever the interleaving
\* of the tool calls.
C25_NoAnswerBeforeFirstCycle == AnsweredFromCache => McpCycleCompleted
====
